---- MODULE Spec2Model ----
(***************************************************************************)
(* hearth / tasks app: recurring-task scheduling and completion ordering.  *)
(* The store (TaskInstance and TaskExecution tables), the generator and    *)
(* rollover services, and the today/complete/uncomplete/toggle views.      *)
(***************************************************************************)
EXTENDS Integers, Sequences, FiniteSets, TLC

VARIABLES today, tasks, rules, instances, executions, calls, procs

vars == <<today, tasks, rules, instances, executions, calls, procs>>

(***************************************************************************)
(* Bounds of the model.                                                    *)
(***************************************************************************)
NumTasks == 2
MaxCalls == 4
MaxCreationCalls == 3
MaxRequests == 3
MaxDate == 9
MaxWorklistCalls == 2
MaxAllRequests == 2
MaxReorderCalls == 2

Tasks == 1..NumTasks
\* Yesterday and today: every handler works on today, or rolls yesterday
\* over into today.
Dates == {1, 2}
Procs == {1, 2}

(***************************************************************************)
(* Nullable columns: NULL is the empty tuple, a value n is <<n>>.          *)
(***************************************************************************)
NULL == <<>>

Some(n) == <<n>>

SetMax(S) == CHOOSE m \in S : \A x \in S : x <= m

Range(s) == {s[i] : i \in DOMAIN s}

(***************************************************************************)
(* Task (priority, sort_order): the values of the generator's ordering     *)
(* test.  Two tasks may draw the same pair.                                *)
(***************************************************************************)
TaskKeys == {<<0, 10>>, <<5, 1>>, <<0, 20>>}

\* The ordering test's tasks in the order it creates them: High, Low, Mid.
TestKey(t) ==
    CASE t % 3 = 1 -> <<0, 10>>
      [] t % 3 = 2 -> <<5, 1>>
      [] OTHER     -> <<0, 20>>

Task(key, active) ==
    [priority |-> key[1], sort_order |-> key[2], is_active |-> active]

(***************************************************************************)
(* TaskInstance rows.  The primary key of a row is its index in the        *)
(* sequence `instances` (rows are never deleted by these handlers).        *)
(***************************************************************************)
NewInstance(task, date, source, order) ==
    [task |-> task, instance_date |-> date, status |-> "incomplete",
     source |-> source, assigned_order |-> order, completion_order |-> NULL,
     completed_at |-> NULL, skipped_at |-> NULL]

PksOn(insts, date) == {pk \in DOMAIN insts : insts[pk].instance_date = date}

PksFor(insts, task, date) ==
    {pk \in DOMAIN insts : insts[pk].task = task /\ insts[pk].instance_date = date}

\* UniqueConstraint(fields=["task", "instance_date"]): may `row` be inserted?
NoConstraintOnInsert(insts, row) == TRUE

unique_task_instance_date(insts, row) ==
    PksFor(insts, row.task, row.instance_date) = {}

\* UniqueConstraint(fields=["instance_date", "completion_order"],
\* condition=completion_order not null): may row pk be updated to `row`?
NoConstraintOnUpdate(insts, pk, row) == TRUE

unique_completion_order_per_date(insts, pk, row) ==
    row.completion_order = NULL
    \/ \A other \in PksOn(insts, row.instance_date) \ {pk} :
          insts[other].completion_order # row.completion_order

\* Max("completion_order") over the complete rows of a date; NULL when none.
MaxAnyDate(insts, date) ==
    LET S == {insts[pk].completion_order[1] :
                pk \in {q \in DOMAIN insts :
                          /\ insts[q].status = "complete"
                          /\ insts[q].completion_order # NULL}}
    IN  IF S = {} THEN NULL ELSE Some(SetMax(S))

MaxCompletionOrder(insts, date) ==
    LET S == {insts[pk].completion_order[1] :
                pk \in {q \in PksOn(insts, date) :
                          /\ insts[q].status = "complete"
                          /\ insts[q].completion_order # NULL}}
    IN  IF S = {} THEN NULL ELSE Some(SetMax(S))

\* (max_order or 0) + 1
NextCompletionOrder(max_order) ==
    (IF max_order = NULL \/ max_order = Some(0) THEN 0 ELSE max_order[1]) + 1

\* Max("assigned_order") over all rows of a date; NULL when none.
MaxAssignedOrder(insts, date) ==
    LET S == {insts[pk].assigned_order : pk \in PksOn(insts, date)}
    IN  IF S = {} THEN NULL ELSE Some(SetMax(S))

\* (max_order if max_order is not None else -1) + 1
_next_assigned_order(insts, date) ==
    LET max_order == MaxAssignedOrder(insts, date)
    IN  (IF max_order # NULL THEN max_order[1] ELSE -1) + 1

(***************************************************************************)
(* Completion engine: today_complete, today_uncomplete, toggle_complete.   *)
(***************************************************************************)
NOW == <<"now">>

Idle == [pc |-> "idle", op |-> "none", arg |-> 0, date |-> 0, inst |-> NULL,
         max_order |-> NULL, todo |-> <<>>, idx |-> 0, next_order |-> 0,
         created |-> <<>>, direction |-> "", other |-> 0, other_order |-> 0]

Call(op, arg, ret, ok) == [op |-> op, arg |-> arg, ret |-> ret, ok |-> ok]

\* The fields today_complete and the first branch of toggle_complete assign.
CompleteFields(max_order) ==
    [status |-> "complete",
     completion_order |-> Some(NextCompletionOrder(max_order)),
     completed_at |-> NOW, skipped_at |-> NULL]

\* The fields today_uncomplete and the else branch of toggle_complete assign.
UncompleteFields ==
    [status |-> "incomplete", completion_order |-> NULL,
     completed_at |-> NULL, skipped_at |-> NULL]

\* toggle_complete branches on the status of the row it fetched.
ToggleCompletes(inst) == inst.status = "incomplete"

ToggleFields(inst, max_order) ==
    IF ToggleCompletes(inst) THEN CompleteFields(max_order) ELSE UncompleteFields

AlwaysCompleted(inst) == "completed"

ToggleEvent(inst) ==
    IF ToggleCompletes(inst) THEN "completed" ELSE "uncompleted"

\* instance.save(update_fields=[status, completion_order, completed_at,
\* skipped_at, updated_at]): one UPDATE of row pk, refused by the store
\* (IntegrityError) when it would break the completion-order constraint.
StatusOnlyRow(insts, pk, fields) ==
    [insts[pk] EXCEPT !.status = fields.status]

UpdatedRow(insts, pk, fields) ==
    [insts[pk] EXCEPT !.status = fields.status,
                      !.completion_order = fields.completion_order,
                      !.completed_at = fields.completed_at,
                      !.skipped_at = fields.skipped_at]

SaveOk(insts, pk, fields) ==
    unique_completion_order_per_date(insts, pk, UpdatedRow(insts, pk, fields))

Save(insts, pk, fields) ==
    IF SaveOk(insts, pk, fields)
    THEN [insts EXCEPT ![pk] = UpdatedRow(insts, pk, fields)]
    ELSE insts

\* TaskExecution.objects.create(task_instance=..., event_type=...)
DropExecution(execs, pk, event) == execs

CreateExecution(execs, pk, event) ==
    Append(execs, [task_instance |-> pk, event_type |-> event])

\* The events logged for one instance, in event_at order.
ExecLog(execs, pk) ==
    LET keep(e) == e.task_instance = pk
        evs == SelectSeq(execs, keep)
    IN  [i \in DOMAIN evs |-> evs[i].event_type]

\* A whole request of the completion engine, run without interleaving:
\* fetch the row, compute the fields, save, log the event.
Transition(op, pk, fields, event) ==
    /\ Len(calls) < MaxCalls
    /\ IF SaveOk(instances, pk, fields)
       THEN /\ instances' = Save(instances, pk, fields)
            /\ executions' = CreateExecution(executions, pk, event)
            /\ calls' = Append(calls, Call(op, pk, fields.completion_order, TRUE))
       ELSE /\ calls' = Append(calls, Call(op, pk, NULL, FALSE))
            /\ UNCHANGED <<instances, executions>>
    /\ UNCHANGED <<today, tasks, rules, procs>>

today_complete(pk) ==
    /\ pk \in DOMAIN instances
    /\ Transition("complete", pk,
                  CompleteFields(MaxCompletionOrder(instances,
                                                    instances[pk].instance_date)),
                  "completed")

today_uncomplete(pk) ==
    /\ pk \in DOMAIN instances
    /\ Transition("uncomplete", pk, UncompleteFields, "uncompleted")

toggle_complete(pk) ==
    /\ pk \in DOMAIN instances
    /\ Transition("toggle", pk,
                  ToggleFields(instances[pk],
                               MaxCompletionOrder(instances,
                                                  instances[pk].instance_date)),
                  ToggleEvent(instances[pk]))

(***************************************************************************)
(* SpecCompletion: the completion engine alone, one request at a time, on  *)
(* the store the completion tests set up: every task has an incomplete     *)
(* instance on the first date (assigned_order 0, 1, ...), and the first    *)
(* task has one on the last date as well.                                  *)
(***************************************************************************)
SetUpInstances ==
    [i \in 1..(NumTasks + 1) |->
        IF i <= NumTasks THEN NewInstance(i, 1, "manual", i - 1)
                         ELSE NewInstance(1, 2, "manual", 0)]

InitCompletion ==
    /\ today = 2
    /\ tasks = [t \in Tasks |-> Task(<<0, 0>>, TRUE)]
    /\ rules = [t \in Tasks |-> NULL]
    /\ instances = SetUpInstances
    /\ executions = <<>>
    /\ calls = <<>>
    /\ procs = [p \in Procs |-> Idle]

NextCompletion ==
    \E pk \in 1..(NumTasks + 1) :
        \/ today_complete(pk)
        \/ today_uncomplete(pk)
        \/ toggle_complete(pk)

SpecCompletion == InitCompletion /\ [][NextCompletion]_vars

(***************************************************************************)
(* order_by: every sequence of the rows of S that is sorted by key (a      *)
(* function on S).  Rows with equal keys come in whatever order the        *)
(* database returns them.                                                  *)
(***************************************************************************)
LexLess(a, b) ==
    \E i \in 1..Len(a) : a[i] < b[i] /\ \A j \in 1..(i - 1) : a[j] = b[j]

OrderBy(S, key) ==
    {s \in [1..Cardinality(S) -> S] :
        /\ Range(s) = S
        /\ \A i, j \in DOMAIN s : i < j => ~LexLess(key[s[j]], key[s[i]])}

(***************************************************************************)
(* Recurrence rules.  A date is a day number, its weekday is date % 7.     *)
(* An rrule is [freq, byday]: byday is the set of BYDAY weekdays, empty    *)
(* when the text has no BYDAY part.                                        *)
(***************************************************************************)
Weekday(date) == date % 7

Daily == [freq |-> "DAILY", byday |-> {}]

Weekly(byday) == [freq |-> "WEEKLY", byday |-> byday]

\* A text rrulestr cannot parse (an unknown FREQ, an empty BYDAY list).
Malformed == [freq |-> "FOO", byday |-> {}]

\* rrulestr(f"RRULE:{rrule_text}") returns a rule; otherwise it raises
\* ValueError, which neither _rrule_includes_date nor its caller catches.
Parses(rrule) == rrule.freq \in {"DAILY", "WEEKLY"}

Rule(rrule, start, end, active) ==
    [rrule |-> rrule, start_date |-> start, end_date |-> end, is_active |-> active]

\* A rule that takes no notice of BYDAY or of the frequency.
OccursEveryDay(rrule, start_date, target_date) == start_date <= target_date

\* rrulestr(...).between(target, target, inc=True) is non-empty: dateutil
\* yields dtstart, then every day (DAILY) or every listed weekday (WEEKLY;
\* the weekday of dtstart when BYDAY is absent).
Occurs(rrule, start_date, target_date) ==
    /\ start_date <= target_date
    /\ \/ rrule.freq = "DAILY"
       \/ /\ rrule.freq = "WEEKLY"
          /\ Weekday(target_date) \in
                (IF rrule.byday = {} THEN {Weekday(start_date)} ELSE rrule.byday)

\* A rule that takes no notice of end_date.
IncludesPastEnd(rrule, start_date, end_date, target_date) ==
    Occurs(rrule, start_date, target_date)

_rrule_includes_date(rrule, start_date, end_date, target_date) ==
    LET until == IF end_date # NULL /\ end_date[1] <= target_date
                 THEN end_date[1] ELSE target_date
    IN  Occurs(rrule, start_date, target_date) /\ target_date <= until

(***************************************************************************)
(* TaskInstance.objects.get_or_create(task, instance_date, defaults): the  *)
(* lookup, then the INSERT, which the store refuses (IntegrityError, then  *)
(* a second lookup) when the (task, instance_date) pair is taken.          *)
(***************************************************************************)
Lookup(insts, task, date) == PksFor(insts, task, date) # {}

Insert(insts, row) ==
    IF unique_task_instance_date(insts, row)
    THEN [instances |-> Append(insts, row), was_created |-> TRUE]
    ELSE [instances |-> insts, was_created |-> FALSE]

CreateAlways(insts, task, date, source, order) ==
    [instances |-> Append(insts, NewInstance(task, date, source, order)),
     was_created |-> TRUE]

UpdateOrCreate(insts, task, date, source, order) ==
    IF Lookup(insts, task, date)
    THEN [instances |->
             [pk \in DOMAIN insts |->
                 IF pk \in PksFor(insts, task, date)
                 THEN [insts[pk] EXCEPT !.source = source, !.assigned_order = order]
                 ELSE insts[pk]],
          was_created |-> FALSE]
    ELSE Insert(insts, NewInstance(task, date, source, order))

get_or_create(insts, task, date, source, order) ==
    IF Lookup(insts, task, date)
    THEN [instances |-> insts, was_created |-> FALSE]
    ELSE Insert(insts, NewInstance(task, date, source, order))

(***************************************************************************)
(* generate_instances_for_date                                             *)
(***************************************************************************)
\* A filter without the two is_active conditions.
SelectedWhateverActive(t, target_date) ==
    /\ rules[t] # NULL
    /\ rules[t].start_date <= target_date
    /\ ~(rules[t].end_date # NULL /\ rules[t].end_date[1] < target_date)

\* The queryset filter: active rule, active task, start_date <= target,
\* not end_date < target.
RuleSelected(t, target_date) ==
    /\ rules[t] # NULL
    /\ rules[t].is_active
    /\ tasks[t].is_active
    /\ rules[t].start_date <= target_date
    /\ ~(rules[t].end_date # NULL /\ rules[t].end_date[1] < target_date)

TaskKey(t) == <<tasks[t].priority, tasks[t].sort_order>>

\* The `matching` list: the selected rules in (priority, sort_order) order
\* whose rrule includes the date.
Matching(target_date) ==
    OrderBy({t \in Tasks :
                /\ RuleSelected(t, target_date)
                /\ _rrule_includes_date(rules[t].rrule, rules[t].start_date,
                                        rules[t].end_date, target_date)},
            [t \in Tasks |-> TaskKey(t)])

\* enumerate(matching): position i of the list gets order i - 1.
EnumerateOrder(i) == i - 1

RECURSIVE GenerateLoop(_, _, _, _, _)
GenerateLoop(insts, matching, target_date, i, created) ==
    IF i > Len(matching)
    THEN [instances |-> insts, created |-> created]
    ELSE LET r == get_or_create(insts, matching[i], target_date,
                                "generated", EnumerateOrder(i))
         IN  GenerateLoop(r.instances, matching, target_date, i + 1,
                          IF r.was_created THEN Append(created, matching[i])
                                           ELSE created)

\* The matching loop evaluates every selected rule before any row is
\* created: one rule that does not parse ends the call with the exception.
GenerateRaises(target_date) ==
    \E t \in Tasks : RuleSelected(t, target_date) /\ ~Parses(rules[t].rrule)

generate_instances_for_date(target_date) ==
    /\ Len(calls) < MaxCreationCalls
    /\ IF GenerateRaises(target_date)
       THEN /\ calls' = Append(calls, Call("generate", target_date, <<>>, FALSE))
            /\ UNCHANGED instances
       ELSE \E matching \in Matching(target_date) :
               LET r == GenerateLoop(instances, matching, target_date, 1, <<>>)
               IN  /\ instances' = r.instances
                   /\ calls' = Append(calls,
                                      Call("generate", target_date, r.created, TRUE))
    /\ UNCHANGED <<today, tasks, rules, executions, procs>>

(***************************************************************************)
(* rollover_incomplete                                                     *)
(***************************************************************************)
StaleKey(insts, pk) ==
    <<insts[pk].assigned_order, tasks[insts[pk].task].priority,
      tasks[insts[pk].task].sort_order>>

Stale(insts, from_date) ==
    OrderBy({pk \in PksOn(insts, from_date) :
                /\ insts[pk].status = "incomplete"
                /\ tasks[insts[pk].task].is_active},
            [pk \in DOMAIN insts |-> StaleKey(insts, pk)])

\* next_order = (max_order if max_order is not None else -1) + 1
RolloverFromZero(insts, to_date) == 0

RolloverBase(insts, to_date) ==
    LET max_order == MaxAssignedOrder(insts, to_date)
    IN  (IF max_order # NULL THEN max_order[1] ELSE -1) + 1

RECURSIVE RolloverLoop(_, _, _, _, _, _)
RolloverLoop(insts, stale, to_date, i, next_order, created) ==
    IF i > Len(stale)
    THEN [instances |-> insts, created |-> created]
    ELSE LET r == get_or_create(insts, insts[stale[i]].task, to_date,
                                "rolled_over", next_order)
         IN  IF r.was_created
             THEN RolloverLoop(r.instances, stale, to_date, i + 1,
                               next_order + 1, Append(created, stale[i]))
             ELSE RolloverLoop(r.instances, stale, to_date, i + 1,
                               next_order, created)

\* `if not stale.exists(): return []`, else the aggregate and the loop.
RolloverResult(insts, stale, to_date) ==
    IF stale = <<>>
    THEN [instances |-> insts, created |-> <<>>]
    ELSE RolloverLoop(insts, stale, to_date, 1, RolloverBase(insts, to_date), <<>>)

rollover_incomplete(from_date, to_date) ==
    /\ Len(calls) < MaxCreationCalls
    /\ \E stale \in Stale(instances, from_date) :
          LET r == RolloverResult(instances, stale, to_date)
          IN  /\ instances' = r.instances
              /\ calls' = Append(calls, Call("rollover", to_date, r.created, TRUE))
    /\ UNCHANGED <<today, tasks, rules, executions, procs>>

(***************************************************************************)
(* today_add / task_add_to_today with an existing task, in a request made  *)
(* on `date` = timezone.localdate(), which never runs backwards; and the   *)
(* switches schedule_toggle_pause and task_deactivate.                     *)
(***************************************************************************)
today_add(t, date) ==
    /\ Len(calls) < MaxCreationCalls
    /\ date >= today
    /\ today' = date
    /\ LET r == get_or_create(instances, t, date, "manual",
                              _next_assigned_order(instances, date))
       IN  /\ instances' = r.instances
           /\ calls' = Append(calls, Call("add", t, <<>>, TRUE))
    /\ UNCHANGED <<tasks, rules, executions, procs>>

schedule_toggle_pause(t) ==
    /\ Len(calls) < MaxCreationCalls
    /\ rules[t] # NULL
    /\ rules' = [rules EXCEPT ![t].is_active = ~rules[t].is_active]
    /\ calls' = Append(calls, Call("toggle_pause", t, <<>>, TRUE))
    /\ UNCHANGED <<today, tasks, instances, executions, procs>>

task_deactivate(t) ==
    /\ Len(calls) < MaxCreationCalls
    /\ tasks' = [tasks EXCEPT ![t].is_active = ~tasks[t].is_active]
    /\ calls' = Append(calls, Call("deactivate", t, <<>>, TRUE))
    /\ UNCHANGED <<today, rules, instances, executions, procs>>

(***************************************************************************)
(* SpecCreation: generator, rollover and manual add, one request at a      *)
(* time, from an empty instance table.                                     *)
(***************************************************************************)
InitCreation ==
    /\ today = 1
    /\ tasks \in [Tasks -> {Task(k, TRUE) : k \in TaskKeys}]
    /\ rules \in [Tasks -> {Rule(Daily, 1, NULL, a) : a \in BOOLEAN}]
    /\ instances = <<>>
    /\ executions = <<>>
    /\ calls = <<>>
    /\ procs = [p \in Procs |-> Idle]

NextCreation ==
    \/ \E d \in Dates : generate_instances_for_date(d)
    \/ \E d \in Dates \ {1} : rollover_incomplete(d - 1, d)
    \/ \E t \in Tasks, d \in Dates : today_add(t, d)
    \/ \E t \in Tasks : schedule_toggle_pause(t)

SpecCreation == InitCreation /\ [][NextCreation]_vars

(***************************************************************************)
(* SpecDayOpen: the calls that open a day, generate for today and rollover *)
(* from yesterday, in any order, with rules paused and resumed in between. *)
(* Some tasks have an incomplete instance yesterday; today is empty.       *)
(***************************************************************************)
InitDayOpen ==
    /\ today = 2
    /\ tasks \in [Tasks -> {Task(k, TRUE) : k \in TaskKeys}]
    /\ rules \in [Tasks -> {Rule(Daily, 1, NULL, a) : a \in BOOLEAN}]
    /\ \E had \in SUBSET Tasks :
          \E m \in OrderBy(had, [t \in Tasks |-> TaskKey(t)]) :
             instances = [i \in DOMAIN m |-> NewInstance(m[i], 1, "generated", i - 1)]
    /\ executions = <<>>
    /\ calls = <<>>
    /\ procs = [p \in Procs |-> Idle]

NextDayOpen ==
    \/ generate_instances_for_date(2)
    \/ rollover_incomplete(1, 2)
    \/ \E t \in Tasks : schedule_toggle_pause(t)

SpecDayOpen == InitDayOpen /\ [][NextDayOpen]_vars

(***************************************************************************)
(* SpecRules: the generator run on the days of more than a week, one call  *)
(* at a time.  The first task's rule is any of the texts the schedule form *)
(* can store (daily, weekdays, weekends, selected days), a weekly rule     *)
(* without BYDAY or a text that does not parse, with or without an end     *)
(* date; every other task has the daily rule of the generator tests.       *)
(***************************************************************************)
RuleDates == 1..MaxDate

\* MO,WE,FR / MO..FR / SA,SU / TH, as weekday numbers (Monday is 0).
ByDays == {{0, 2, 4}, {0, 1, 2, 3, 4}, {5, 6}, {3}}

RRules == {Daily, Weekly({}), Malformed} \cup {Weekly(b) : b \in ByDays}

RuleChoices ==
    {Rule(r, s, e, TRUE) : r \in RRules, s \in {1, 3}, e \in {NULL, Some(4), Some(8)}}

InitRules ==
    /\ today = 1
    /\ tasks = [t \in Tasks |-> Task(TestKey(t), TRUE)]
    /\ \E first \in RuleChoices :
          rules = [t \in Tasks |-> IF t = 1 THEN first
                                           ELSE Rule(Daily, 1, NULL, TRUE)]
    /\ instances = <<>>
    /\ executions = <<>>
    /\ calls = <<>>
    /\ procs = [p \in Procs |-> Idle]

NextRules == \E d \in RuleDates : generate_instances_for_date(d)

SpecRules == InitRules /\ [][NextRules]_vars

(***************************************************************************)
(* SpecSwitches: the generator on the same rules and days, with the pause  *)
(* switch of a schedule and the deactivation switch of a task used between *)
(* the calls.                                                              *)
(***************************************************************************)
NextSwitches ==
    \/ \E d \in RuleDates : generate_instances_for_date(d)
    \/ \E t \in Tasks : schedule_toggle_pause(t)
    \/ \E t \in Tasks : task_deactivate(t)

SpecSwitches == InitRules /\ [][NextSwitches]_vars

(***************************************************************************)
(* The today page: _instances_for_date, and reorder.                       *)
(***************************************************************************)
NoRank(status) == 0

\* status_rank = Case(When complete -> 0, When skipped -> 1, default 2)
StatusRank(status) ==
    CASE status = "complete" -> 0
      [] status = "skipped"  -> 1
      [] OTHER               -> 2

\* order_by("assigned_order", "task__priority")
IncompleteKey(insts, pk) ==
    <<insts[pk].assigned_order, tasks[insts[pk].task].priority>>

\* order_by("status_rank", "completion_order").  Where a NULL
\* completion_order sorts is the database's choice: before every number
\* (nulls_first) or after.
CompletedKey(insts, pk, nulls_first) ==
    LET co == insts[pk].completion_order
    IN  <<StatusRank(insts[pk].status),
          IF co # NULL THEN 1 ELSE IF nulls_first THEN 0 ELSE 2,
          IF co # NULL THEN co[1] ELSE 0>>

\* The (incomplete, completed) pairs the two querysets can evaluate to.
_instances_for_date(insts, target_date) ==
    {[incomplete |-> i, completed |-> c] :
        i \in OrderBy({pk \in PksOn(insts, target_date) :
                          insts[pk].status = "incomplete"},
                      [pk \in DOMAIN insts |-> IncompleteKey(insts, pk)]),
        c \in UNION {OrderBy({pk \in PksOn(insts, target_date) :
                                 insts[pk].status \in {"complete", "skipped"}},
                             [pk \in DOMAIN insts |->
                                 CompletedKey(insts, pk, nulls_first)]) :
                     nulls_first \in BOOLEAN}}

\* The page lists the incomplete queryset, then the completed one.
Worklist(view) == view.incomplete \o view.completed

\* The today view: generate for today, roll yesterday over, then list.
today_view ==
    /\ IF GenerateRaises(today)
       THEN /\ calls' = Append(calls, Call("today", today, <<>>, FALSE))
            /\ UNCHANGED instances
       ELSE \E matching \in Matching(today) :
               LET g == GenerateLoop(instances, matching, today, 1, <<>>)
               IN  \E stale \in Stale(g.instances, today - 1) :
                      LET r == RolloverResult(g.instances, stale, today)
                      IN  /\ instances' = r.instances
                          /\ \E view \in _instances_for_date(r.instances, today) :
                                calls' = Append(calls, Call("today", today, view, TRUE))
    /\ UNCHANGED <<today, tasks, rules, executions, procs>>

\* reorder: the incomplete instances of the date in page order.
Siblings(insts, pk) ==
    OrderBy({q \in PksOn(insts, insts[pk].instance_date) :
                insts[q].status = "incomplete"},
            [q \in DOMAIN insts |-> IncompleteKey(insts, q)])

\* pks.index(instance.pk), counted from 1.
IndexOf(siblings, pk) == CHOOSE i \in DOMAIN siblings : siblings[i] = pk

\* An index that wraps round at the two ends of the list.
WrapIdx(idx, len, direction) ==
    IF direction = "up" THEN (IF idx > 1 THEN idx - 1 ELSE len)
    ELSE IF direction = "down" THEN (IF idx < len THEN idx + 1 ELSE 1)
    ELSE 0

\* The position of the neighbour to swap with, 0 when there is none.
SwapIdx(idx, len, direction) ==
    IF direction = "up" /\ idx > 1 THEN idx - 1
    ELSE IF direction = "down" /\ idx < len THEN idx + 1
    ELSE 0

\* The swap alone.
PlainSwap(mine, theirs, direction) == [instance |-> theirs, other |-> mine]

\* The swap, and the nudge that breaks a tie.
SwappedOrders(mine, theirs, direction) ==
    [instance |-> IF theirs = mine
                  THEN (IF direction = "up" THEN theirs - 1 ELSE theirs + 1)
                  ELSE theirs,
     other |-> mine]

\* The request log keeps the direction posted and the siblings list the
\* request evaluated (empty when it returned before the query).
ReorderCall(pk, direction, siblings) ==
    Call("reorder", pk, [direction |-> direction, siblings |-> siblings], TRUE)

reorder(pk, direction) ==
    /\ pk \in DOMAIN instances
    /\ IF instances[pk].status # "incomplete"
       THEN /\ calls' = Append(calls, ReorderCall(pk, direction, <<>>))
            /\ UNCHANGED instances
       ELSE \E siblings \in Siblings(instances, pk) :
               LET swap_idx == SwapIdx(IndexOf(siblings, pk), Len(siblings), direction)
               IN  /\ calls' = Append(calls, ReorderCall(pk, direction, siblings))
                   /\ IF swap_idx = 0
                      THEN UNCHANGED instances
                      ELSE LET other == siblings[swap_idx]
                               o == SwappedOrders(instances[pk].assigned_order,
                                                  instances[other].assigned_order,
                                                  direction)
                           IN  instances' =
                                  [instances EXCEPT ![pk].assigned_order = o.instance,
                                                    ![other].assigned_order = o.other]
    /\ UNCHANGED <<today, tasks, rules, executions, procs>>

(***************************************************************************)
(* SpecWorklist: the today page, the completion engine and reorder, one    *)
(* request at a time, on a store like the one the page ordering tests      *)
(* build: each task has an instance today (incomplete, complete or         *)
(* skipped, assigned_order 0 or 1) or an incomplete one yesterday.  The    *)
(* tasks have no schedule rule.                                            *)
(***************************************************************************)
StoredRow(t, date, status, assigned_order, completion_order) ==
    [NewInstance(t, date, "manual", assigned_order) EXCEPT
        !.status = status,
        !.completion_order = IF status = "complete" THEN Some(completion_order)
                                                     ELSE NULL,
        !.completed_at = IF status = "complete" THEN NOW ELSE NULL,
        !.skipped_at = IF status = "skipped" THEN NOW ELSE NULL]

WorklistRows(t) ==
    {StoredRow(t, 2, st, o, c) :
        st \in {"incomplete", "complete", "skipped"}, o \in {0, 1}, c \in {1, 2}}
    \cup {StoredRow(t, 1, "incomplete", 0, 1)}

InitWorklist ==
    /\ today = 2
    /\ tasks = [t \in Tasks |-> Task(TestKey(t), TRUE)]
    /\ rules = [t \in Tasks |-> NULL]
    /\ instances \in [Tasks -> UNION {WorklistRows(t) : t \in Tasks}]
    /\ \A t \in Tasks :
          /\ instances[t] \in WorklistRows(t)
          /\ unique_completion_order_per_date(instances, t, instances[t])
    /\ executions = <<>>
    /\ calls = <<>>
    /\ procs = [p \in Procs |-> Idle]

WorklistOpen == Len(calls) < MaxWorklistCalls

NextWorklist ==
    \/ WorklistOpen /\ today_view
    \/ \E pk \in DOMAIN instances : WorklistOpen /\ today_complete(pk)
    \/ \E pk \in DOMAIN instances : WorklistOpen /\ today_uncomplete(pk)
    \/ \E pk \in DOMAIN instances : WorklistOpen /\ toggle_complete(pk)
    \/ \E pk \in DOMAIN instances, direction \in {"up", "down"} :
          WorklistOpen /\ reorder(pk, direction)

SpecWorklist == InitWorklist /\ [][NextWorklist]_vars

(***************************************************************************)
(* SpecReorder: reorder requests alone, one at a time, on a day with three *)
(* tasks, the least that give the list a first, a middle and a last row.   *)
(* Each task has an instance today, incomplete or complete, with           *)
(* assigned_order 0 or 1, or an incomplete one yesterday; its priority is  *)
(* 0 or 5.  The direction posted is up, down, or the empty default of      *)
(* request.POST.get.                                                       *)
(***************************************************************************)
ReorderTasks == {1, 2, 3}

Directions == {"up", "down", ""}

ReorderRows(t) ==
    {StoredRow(t, 2, st, o, t) : st \in {"incomplete", "complete"}, o \in {0, 1}}
    \cup {StoredRow(t, 1, "incomplete", 0, t)}

InitReorder ==
    /\ today = 2
    /\ tasks \in [ReorderTasks -> {Task(k, TRUE) : k \in {<<0, 10>>, <<5, 1>>}}]
    /\ rules = [t \in ReorderTasks |-> NULL]
    /\ instances \in [ReorderTasks -> UNION {ReorderRows(t) : t \in ReorderTasks}]
    /\ \A t \in ReorderTasks : instances[t] \in ReorderRows(t)
    /\ executions = <<>>
    /\ calls = <<>>
    /\ procs = [p \in Procs |-> Idle]

NextReorder ==
    \E pk \in DOMAIN instances, direction \in Directions :
       Len(calls) < MaxReorderCalls /\ reorder(pk, direction)

SpecReorder == InitReorder /\ [][NextReorder]_vars

(***************************************************************************)
(* Concurrent requests.  Django runs each handler without a transaction    *)
(* (autocommit): every query is its own atomic step, and the steps of the  *)
(* requests in flight interleave.  procs[p] is request p's position and    *)
(* its local variables.                                                    *)
(***************************************************************************)
InFlight == {p \in Procs : procs[p].pc # "idle"}

CanStart(p) ==
    /\ procs[p].pc = "idle"
    /\ Len(calls) + Cardinality(InFlight) < MaxRequests

Respond(p, ret, ok) ==
    /\ calls' = Append(calls, Call(procs[p].op, procs[p].arg, ret, ok))
    /\ procs' = [procs EXCEPT ![p] = Idle]

\* get_object_or_404(TaskInstance, pk=...)
StartComplete(p, pk) ==
    /\ CanStart(p)
    /\ pk \in DOMAIN instances
    /\ procs' = [procs EXCEPT ![p] = [Idle EXCEPT !.op = "complete", !.arg = pk,
                                        !.inst = instances[pk], !.pc = "aggregate"]]
    /\ UNCHANGED <<today, tasks, rules, instances, executions, calls>>

StartUncomplete(p, pk) ==
    /\ CanStart(p)
    /\ pk \in DOMAIN instances
    /\ procs' = [procs EXCEPT ![p] = [Idle EXCEPT !.op = "uncomplete", !.arg = pk,
                                        !.inst = instances[pk], !.pc = "save"]]
    /\ UNCHANGED <<today, tasks, rules, instances, executions, calls>>

StartToggle(p, pk) ==
    /\ CanStart(p)
    /\ pk \in DOMAIN instances
    /\ procs' = [procs EXCEPT ![p] =
                    [Idle EXCEPT !.op = "toggle", !.arg = pk,
                                 !.inst = instances[pk],
                                 !.pc = IF ToggleCompletes(instances[pk])
                                        THEN "aggregate" ELSE "save"]]
    /\ UNCHANGED <<today, tasks, rules, instances, executions, calls>>

\* .aggregate(m=Max("completion_order"))
Aggregate(p) ==
    /\ procs[p].pc = "aggregate"
    /\ procs' = [procs EXCEPT
                   ![p].max_order = MaxCompletionOrder(instances,
                                                       procs[p].inst.instance_date),
                   ![p].pc = "save"]
    /\ UNCHANGED <<today, tasks, rules, instances, executions, calls>>

RequestFields(p) ==
    IF procs[p].op = "complete" THEN CompleteFields(procs[p].max_order)
    ELSE IF procs[p].op = "uncomplete" THEN UncompleteFields
    ELSE ToggleFields(procs[p].inst, procs[p].max_order)

RequestEvent(p) ==
    IF procs[p].op = "complete" THEN "completed"
    ELSE IF procs[p].op = "uncomplete" THEN "uncompleted"
    ELSE ToggleEvent(procs[p].inst)

\* instance.save(update_fields=[...]); an IntegrityError ends the request.
SaveStep(p) ==
    /\ procs[p].pc = "save"
    /\ IF SaveOk(instances, procs[p].arg, RequestFields(p))
       THEN /\ instances' = Save(instances, procs[p].arg, RequestFields(p))
            /\ procs' = [procs EXCEPT ![p].pc = "log"]
            /\ UNCHANGED calls
       ELSE /\ Respond(p, NULL, FALSE)
            /\ UNCHANGED instances
    /\ UNCHANGED <<today, tasks, rules, executions>>

\* TaskExecution.objects.create(...), then the redirect.
LogStep(p) ==
    /\ procs[p].pc = "log"
    /\ executions' = CreateExecution(executions, procs[p].arg, RequestEvent(p))
    /\ Respond(p, RequestFields(p).completion_order, TRUE)
    /\ UNCHANGED <<today, tasks, rules, instances>>

(***************************************************************************)
(* SpecConcCompletion: concurrent complete / uncomplete / toggle requests  *)
(* on the store of SpecCompletion.                                         *)
(***************************************************************************)
NextConcCompletion ==
    \E p \in Procs :
        \/ \E pk \in 1..(NumTasks + 1) : StartComplete(p, pk)
        \/ \E pk \in 1..(NumTasks + 1) : StartUncomplete(p, pk)
        \/ \E pk \in 1..(NumTasks + 1) : StartToggle(p, pk)
        \/ Aggregate(p)
        \/ SaveStep(p)
        \/ LogStep(p)

SpecConcCompletion == InitCompletion /\ [][NextConcCompletion]_vars

(***************************************************************************)
(* Concurrent generate / rollover / add requests.  get_or_create is two    *)
(* queries: the SELECT, then (on a miss) the INSERT.                        *)
(***************************************************************************)
\* The task of the item the loop is at, the order it would get, and what
\* the request appends to `created` for it.
ItemTask(p) ==
    IF procs[p].op = "rollover" THEN instances[procs[p].todo[procs[p].idx]].task
    ELSE procs[p].todo[procs[p].idx]

ItemOrder(p) ==
    IF procs[p].op = "generate" THEN EnumerateOrder(procs[p].idx)
    ELSE procs[p].next_order

ItemSource(p) ==
    IF procs[p].op = "generate" THEN "generated"
    ELSE IF procs[p].op = "rollover" THEN "rolled_over"
    ELSE "manual"

ItemReturned(p) ==
    IF procs[p].op = "add" THEN <<>> ELSE <<procs[p].todo[procs[p].idx]>>

\* The loop moves to its next item, or the request returns.
Advance(p, was_created) ==
    LET created == IF was_created THEN procs[p].created \o ItemReturned(p)
                                  ELSE procs[p].created
        next_order == IF was_created THEN procs[p].next_order + 1
                                     ELSE procs[p].next_order
    IN  IF procs[p].idx < Len(procs[p].todo)
        THEN /\ procs' = [procs EXCEPT ![p].idx = procs[p].idx + 1,
                                       ![p].created = created,
                                       ![p].next_order = next_order,
                                       ![p].pc = "get"]
             /\ UNCHANGED calls
        ELSE Respond(p, created, TRUE)

\* `for rule in rules`: the rules query runs once, when the loop starts.
StartGenerate(p, target_date) ==
    /\ CanStart(p)
    /\ IF GenerateRaises(target_date)
       THEN /\ calls' = Append(calls, Call("generate", target_date, <<>>, FALSE))
            /\ UNCHANGED procs
       ELSE \E matching \in Matching(target_date) :
          IF matching = <<>>
          THEN /\ calls' = Append(calls, Call("generate", target_date, <<>>, TRUE))
               /\ UNCHANGED procs
          ELSE /\ procs' = [procs EXCEPT ![p] =
                              [Idle EXCEPT !.op = "generate", !.arg = target_date,
                                           !.date = target_date, !.todo = matching,
                                           !.idx = 1, !.pc = "get"]]
               /\ UNCHANGED calls
    /\ UNCHANGED <<today, tasks, rules, instances, executions>>

\* `if not stale.exists(): return []`
StartRollover(p, from_date, to_date) ==
    /\ CanStart(p)
    /\ IF Stale(instances, from_date) = {<<>>}
       THEN /\ calls' = Append(calls, Call("rollover", to_date, <<>>, TRUE))
            /\ UNCHANGED procs
       ELSE /\ procs' = [procs EXCEPT ![p] =
                           [Idle EXCEPT !.op = "rollover", !.arg = to_date,
                                        !.date = to_date, !.pc = "max"]]
            /\ UNCHANGED calls
    /\ UNCHANGED <<today, tasks, rules, instances, executions>>

\* .aggregate(m=Max("assigned_order")) over to_date
RolloverMax(p) ==
    /\ procs[p].pc = "max"
    /\ procs' = [procs EXCEPT ![p].next_order = RolloverBase(instances, procs[p].date),
                              ![p].pc = "list"]
    /\ UNCHANGED <<today, tasks, rules, instances, executions, calls>>

\* `for inst in stale`: the stale query runs again.
RolloverList(p) ==
    /\ procs[p].pc = "list"
    /\ \E stale \in Stale(instances, procs[p].date - 1) :
          IF stale = <<>>
          THEN Respond(p, <<>>, TRUE)
          ELSE /\ procs' = [procs EXCEPT ![p].todo = stale, ![p].idx = 1,
                                         ![p].pc = "get"]
               /\ UNCHANGED calls
    /\ UNCHANGED <<today, tasks, rules, instances, executions>>

\* today_add: _next_assigned_order(today_date), then get_or_create.
StartAdd(p, t, date) ==
    /\ CanStart(p)
    /\ date >= today
    /\ today' = date
    /\ procs' = [procs EXCEPT ![p] =
                    [Idle EXCEPT !.op = "add", !.arg = t, !.date = date,
                                 !.next_order = _next_assigned_order(instances, date),
                                 !.todo = <<t>>, !.idx = 1, !.pc = "get"]]
    /\ UNCHANGED <<tasks, rules, instances, executions, calls>>

\* get_or_create: the SELECT.
GetStep(p) ==
    /\ procs[p].pc = "get"
    /\ IF Lookup(instances, ItemTask(p), procs[p].date)
       THEN Advance(p, FALSE)
       ELSE /\ procs' = [procs EXCEPT ![p].pc = "insert"]
            /\ UNCHANGED calls
    /\ UNCHANGED <<today, tasks, rules, instances, executions>>

\* get_or_create: the INSERT; on IntegrityError the row is fetched instead.
InsertStep(p) ==
    /\ procs[p].pc = "insert"
    /\ LET r == Insert(instances, NewInstance(ItemTask(p), procs[p].date,
                                              ItemSource(p), ItemOrder(p)))
       IN  /\ instances' = r.instances
           /\ Advance(p, r.was_created)
    /\ UNCHANGED <<today, tasks, rules, executions>>

(***************************************************************************)
(* Concurrent reorder requests: the instance is fetched, then the sibling  *)
(* list, then the two rows are saved one after the other, each UPDATE      *)
(* writing assigned_order only.                                            *)
(***************************************************************************)
StartReorder(p, pk, direction) ==
    /\ CanStart(p)
    /\ pk \in DOMAIN instances
    /\ IF instances[pk].status # "incomplete"
       THEN /\ calls' = Append(calls, Call("reorder", pk, <<>>, TRUE))
            /\ UNCHANGED procs
       ELSE /\ procs' = [procs EXCEPT ![p] =
                           [Idle EXCEPT !.op = "reorder", !.arg = pk,
                                        !.inst = instances[pk],
                                        !.direction = direction,
                                        !.pc = "siblings"]]
            /\ UNCHANGED calls
    /\ UNCHANGED <<today, tasks, rules, instances, executions>>

\* The siblings query; `pks.index` raises ValueError when the instance is
\* not incomplete any more, and the request ends.
ReorderSiblings(p) ==
    /\ procs[p].pc = "siblings"
    /\ \E siblings \in Siblings(instances, procs[p].arg) :
          LET swap_idx == IF procs[p].arg \in Range(siblings)
                          THEN SwapIdx(IndexOf(siblings, procs[p].arg),
                                       Len(siblings), procs[p].direction)
                          ELSE 0
          IN  IF swap_idx = 0
              THEN Respond(p, <<>>, TRUE)
              ELSE LET o == SwappedOrders(procs[p].inst.assigned_order,
                                          instances[siblings[swap_idx]].assigned_order,
                                          procs[p].direction)
                   IN  /\ procs' = [procs EXCEPT ![p].other = siblings[swap_idx],
                                                  ![p].next_order = o.instance,
                                                  ![p].other_order = o.other,
                                                  ![p].pc = "save_instance"]
                       /\ UNCHANGED calls
    /\ UNCHANGED <<today, tasks, rules, instances, executions>>

\* instance.save(update_fields=["assigned_order", "updated_at"])
ReorderSaveInstance(p) ==
    /\ procs[p].pc = "save_instance"
    /\ instances' = [instances EXCEPT
                        ![procs[p].arg].assigned_order = procs[p].next_order]
    /\ procs' = [procs EXCEPT ![p].pc = "save_other"]
    /\ UNCHANGED <<today, tasks, rules, executions, calls>>

\* other.save(update_fields=["assigned_order", "updated_at"]), the redirect.
ReorderSaveOther(p) ==
    /\ procs[p].pc = "save_other"
    /\ instances' = [instances EXCEPT
                        ![procs[p].other].assigned_order = procs[p].other_order]
    /\ Respond(p, <<>>, TRUE)
    /\ UNCHANGED <<today, tasks, rules, executions>>

(***************************************************************************)
(* SpecConcAll: every request of the engine, interleaved: generate,        *)
(* rollover, add, complete, uncomplete, toggle and reorder.  Every task    *)
(* has a daily rule and an incomplete instance yesterday; the first task   *)
(* also has an instance today, incomplete, complete or skipped.            *)
(***************************************************************************)
InitConcAll ==
    /\ today = 2
    /\ tasks = [t \in Tasks |-> Task(TestKey(t), TRUE)]
    /\ rules = [t \in Tasks |-> Rule(Daily, 1, NULL, TRUE)]
    /\ \E st \in {"incomplete", "complete", "skipped"} :
          instances = [i \in 1..(NumTasks + 1) |->
                          IF i <= NumTasks
                          THEN StoredRow(i, 1, "incomplete", i - 1, 1)
                          ELSE StoredRow(1, 2, st, 0, 1)]
    /\ executions = <<>>
    /\ calls = <<>>
    /\ procs = [p \in Procs |-> Idle]

\* A request may arrive.
AllOpen == Len(calls) + Cardinality(InFlight) < MaxAllRequests

NextConcAll ==
    \E p \in Procs :
        \/ AllOpen /\ StartGenerate(p, 2)
        \/ AllOpen /\ StartRollover(p, 1, 2)
        \/ \E t \in Tasks : AllOpen /\ StartAdd(p, t, 2)
        \/ \E pk \in DOMAIN instances : AllOpen /\ StartComplete(p, pk)
        \/ \E pk \in DOMAIN instances : AllOpen /\ StartUncomplete(p, pk)
        \/ \E pk \in DOMAIN instances : AllOpen /\ StartToggle(p, pk)
        \/ \E pk \in DOMAIN instances, direction \in {"up", "down"} :
              AllOpen /\ StartReorder(p, pk, direction)
        \/ RolloverMax(p)
        \/ RolloverList(p)
        \/ GetStep(p)
        \/ InsertStep(p)
        \/ Aggregate(p)
        \/ SaveStep(p)
        \/ LogStep(p)
        \/ ReorderSiblings(p)
        \/ ReorderSaveInstance(p)
        \/ ReorderSaveOther(p)

SpecConcAll == InitConcAll /\ [][NextConcAll]_vars

(***************************************************************************)
(* SpecConcCreation: concurrent generate / rollover / add requests.  Each  *)
(* task has a daily rule and yesterday's generated instance.               *)
(***************************************************************************)
InitConcCreation ==
    /\ today = 2
    /\ tasks = [t \in Tasks |-> Task(TestKey(t), TRUE)]
    /\ rules = [t \in Tasks |-> Rule(Daily, 1, NULL, TRUE)]
    /\ \E m \in OrderBy(Tasks, [t \in Tasks |-> TaskKey(t)]) :
          instances = [i \in DOMAIN m |-> NewInstance(m[i], 1, "generated", i - 1)]
    /\ executions = <<>>
    /\ calls = <<>>
    /\ procs = [p \in Procs |-> Idle]

NextConcCreation ==
    \E p \in Procs :
        \/ StartGenerate(p, 2)
        \/ StartRollover(p, 1, 2)
        \/ \E t \in Tasks : StartAdd(p, t, 2)
        \/ RolloverMax(p)
        \/ RolloverList(p)
        \/ GetStep(p)
        \/ InsertStep(p)

SpecConcCreation == InitConcCreation /\ [][NextConcCreation]_vars

(***************************************************************************)
(* Properties.                                                             *)
(***************************************************************************)
LastCall == calls[Len(calls)]

\* This step is one whole request: it adds NewCall to the request log.
Responded == Len(calls') = Len(calls) + 1

NewCall == calls'[Len(calls')]

CompletionOps == {"complete", "uncomplete", "toggle"}

\* C1: no two instances of one date hold the same non-null completion_order,
\* in any state concurrent complete / uncomplete / toggle requests reach.
C1_UniqueCompletionOrder ==
    \A a, b \in DOMAIN instances :
        /\ a # b
        /\ instances[a].instance_date = instances[b].instance_date
        /\ instances[a].completion_order # NULL
        => instances[a].completion_order # instances[b].completion_order

\* Two instances of a date are complete and a racing request was refused.
C1_Witness ==
    /\ \E i \in DOMAIN calls : ~calls[i].ok
    /\ \E a, b \in DOMAIN instances :
          /\ a # b
          /\ instances[a].instance_date = instances[b].instance_date
          /\ instances[a].status = "complete"
          /\ instances[b].status = "complete"

\* C2: a generate call right after a generate call for the same date leaves
\* the instance table as it is and returns the empty list.
C2_GenerateIdempotent ==
    [][(/\ Responded
        /\ Len(calls) >= 1
        /\ LastCall.op = "generate"
        /\ NewCall.op = "generate"
        /\ NewCall.arg = LastCall.arg)
       => (instances' = instances /\ NewCall.ret = <<>>)]_vars

\* Two generate calls in a row for one date, the first of which created rows.
C2_Witness ==
    \E i \in DOMAIN calls :
        /\ i + 1 \in DOMAIN calls
        /\ calls[i].op = "generate"
        /\ calls[i + 1].op = "generate"
        /\ calls[i].arg = calls[i + 1].arg
        /\ calls[i].ret # <<>>

\* C3: at most one instance per (task, instance_date), in any state
\* concurrent generate / rollover / add requests reach.
C3_UniqueTaskDate ==
    \A a, b \in DOMAIN instances :
        a # b => \/ instances[a].task # instances[b].task
                 \/ instances[a].instance_date # instances[b].instance_date

\* A request missed the row in its SELECT, and the row is there now that it
\* is about to INSERT.
C3_Witness ==
    \E p \in Procs :
        /\ procs[p].pc = "insert"
        /\ Lookup(instances, ItemTask(p), procs[p].date)

\* The calls made on instance pk, oldest first.
CallsOn(pk) ==
    LET on(c) == c.op \in CompletionOps /\ c.arg = pk
    IN  SelectSeq(calls, on)

\* C4: Complete, Uncomplete, Complete on one instance gives it a
\* completion_order strictly greater than the first Complete gave it.
C4_RecompleteHigher ==
    \A pk \in DOMAIN instances :
        LET cs == CallsOn(pk)
        IN  \A i \in DOMAIN cs :
                /\ i + 2 \in DOMAIN cs
                /\ cs[i].op \in {"complete", "toggle"} /\ cs[i].ret # NULL
                /\ cs[i + 1].op \in {"uncomplete", "toggle"} /\ cs[i + 1].ret = NULL
                /\ cs[i + 2].op \in {"complete", "toggle"} /\ cs[i + 2].ret # NULL
                => cs[i + 2].ret[1] > cs[i].ret[1]

\* C5: from an incomplete instance with an empty log, Complete, Uncomplete,
\* Complete (by the endpoints or by toggles) leaves exactly the log
\* [completed, uncompleted, completed].
RoundTrip(pk) ==
    LET cs == CallsOn(pk)
    IN  /\ Len(cs) = 3
        /\ cs[1].op \in {"complete", "toggle"}
        /\ cs[2].op \in {"uncomplete", "toggle"}
        /\ cs[3].op \in {"complete", "toggle"}

C5_RoundTripLog ==
    \A pk \in DOMAIN instances :
        RoundTrip(pk)
        => ExecLog(executions, pk) = <<"completed", "uncompleted", "completed">>

\* One instance went through three toggles, another call came in between.
C5_Witness ==
    \E pk \in DOMAIN instances :
        /\ RoundTrip(pk)
        /\ \A i \in 1..3 : CallsOn(pk)[i].op = "toggle"
        /\ Len(calls) > 3

\* C6: every complete / uncomplete / toggle request appends exactly one
\* execution record, for the instance it acted on, and no step removes or
\* changes a record that is already there.
C6_AppendOnlyLog ==
    [][/\ Len(executions') >= Len(executions)
       /\ \A i \in DOMAIN executions : executions'[i] = executions[i]
       /\ (Responded /\ NewCall.op \in CompletionOps /\ NewCall.ok)
          => /\ Len(executions') = Len(executions) + 1
             /\ executions'[Len(executions')].task_instance = NewCall.arg]_vars

\* The log holds records of two instances.
C6_Witness ==
    /\ Len(executions) >= 3
    /\ \E i, j \in DOMAIN executions :
          executions[i].task_instance # executions[j].task_instance

\* C7: Complete on an incomplete instance of date D sets completion_order
\* to 1 + the largest completion_order of D's complete instances, or to 1
\* when D has none; other dates do not count.
C7_NextOrderPerDate ==
    [][(/\ Responded
        /\ NewCall.op \in {"complete", "toggle"}
        /\ instances[NewCall.arg].status = "incomplete")
       => LET D == instances[NewCall.arg].instance_date
              held == {instances[q].completion_order[1] :
                         q \in {r \in DOMAIN instances :
                                  /\ instances[r].instance_date = D
                                  /\ instances[r].status = "complete"}}
          IN  /\ instances'[NewCall.arg].status = "complete"
              /\ instances'[NewCall.arg].completion_order =
                    IF held = {} THEN <<1>>
                    ELSE <<1 + SetMax(held)>>]_vars

\* The first completion of the later date got order 1 while the earlier
\* date already held order 2.
C7_Witness ==
    /\ Len(calls) >= 1
    /\ LastCall.op = "complete"
    /\ LastCall.ret = <<1>>
    /\ \E a, b \in DOMAIN instances :
          /\ instances[a].instance_date # instances[b].instance_date
          /\ instances[a].completion_order = <<1>>
          /\ instances[b].completion_order = <<2>>
          /\ LastCall.arg = a

\* C8: of two generated instances of one date, the one whose task has the
\* smaller (priority, sort_order) has the strictly smaller assigned_order.
C8_GeneratedOrderFollowsPriority ==
    \A a, b \in DOMAIN instances :
        /\ instances[a].instance_date = instances[b].instance_date
        /\ instances[a].source = "generated"
        /\ instances[b].source = "generated"
        /\ LexLess(TaskKey(instances[a].task), TaskKey(instances[b].task))
        => instances[a].assigned_order < instances[b].assigned_order

\* C9: generate leaves every instance that already exists for its date as
\* it is, whatever its source, creates no second one for its task and does
\* not return the task.
C9_GenerateKeepsExisting ==
    [][(Responded /\ NewCall.op = "generate")
       => \A pk \in PksOn(instances, NewCall.arg) :
             /\ instances'[pk] = instances[pk]
             /\ Cardinality(PksFor(instances', instances[pk].task, NewCall.arg)) = 1
             /\ instances[pk].task \notin Range(NewCall.ret)]_vars

\* generate ran on a date that had a manual instance of a task whose rule
\* matches, and created the instance of another task.
C9_Witness ==
    /\ Len(calls) >= 1
    /\ LastCall.op = "generate"
    /\ LastCall.ret # <<>>
    /\ \E pk \in PksOn(instances, LastCall.arg) :
          /\ instances[pk].source = "manual"
          /\ RuleSelected(instances[pk].task, LastCall.arg)

\* C10: the k-th instance rollover creates (k = 0, 1, ...), in the
\* (assigned_order, priority, sort_order) order of the from-date instances,
\* gets assigned_order M + 1 + k, M the largest assigned_order of the
\* to-date before the call, or -1.
C10_RolloverAppends ==
    [][(Responded /\ NewCall.op = "rollover")
       => LET held == {instances[q].assigned_order : q \in PksOn(instances, NewCall.arg)}
              M == IF held = {} THEN -1 ELSE SetMax(held)
              n == Len(instances') - Len(instances)
          IN  /\ n = Len(NewCall.ret)
              /\ \A k \in 0..(n - 1) :
                    LET row == instances'[Len(instances) + 1 + k]
                    IN  /\ row.assigned_order = M + 1 + k
                        /\ row.instance_date = NewCall.arg
                        /\ row.task = instances[NewCall.ret[k + 1]].task
              /\ \A i, j \in 1..n :
                    i < j => ~LexLess(StaleKey(instances, NewCall.ret[j]),
                                      StaleKey(instances, NewCall.ret[i]))]_vars

\* rollover created an instance after the ones the to-date already had,
\* and skipped a task that was already there.
C10_Witness ==
    /\ Len(calls) >= 1
    /\ LastCall.op = "rollover"
    /\ LastCall.ret # <<>>
    /\ \E a, b \in PksOn(instances, LastCall.arg) :
          /\ instances[a].source # "rolled_over"
          /\ \E y \in PksOn(instances, LastCall.arg - 1) :
                instances[y].task = instances[a].task
          /\ instances[b].source = "rolled_over"
          /\ instances[b].assigned_order > instances[a].assigned_order

\* The dates a rule is in force: from start_date, to end_date when set.
InWindow(rule, D) ==
    rule.start_date <= D /\ (rule.end_date = NULL \/ D <= rule.end_date[1])

\* C11: a FREQ=WEEKLY;BYDAY=<codes> rule includes a date of its window if
\* and only if the date's weekday is listed, and a generate call creates
\* the rule's instance exactly on such a date (when the task has none yet).
C11_WeeklyByDay ==
    [][(Responded /\ NewCall.op = "generate" /\ NewCall.ok)
       => \A t \in Tasks :
             (rules[t].rrule.freq = "WEEKLY" /\ rules[t].rrule.byday # {})
             => /\ \A D \in RuleDates :
                      InWindow(rules[t], D)
                      => (_rrule_includes_date(rules[t].rrule, rules[t].start_date,
                                               rules[t].end_date, D)
                          <=> Weekday(D) \in rules[t].rrule.byday)
                /\ t \in Range(NewCall.ret)
                   <=> /\ InWindow(rules[t], NewCall.arg)
                       /\ Weekday(NewCall.arg) \in rules[t].rrule.byday
                       /\ ~Lookup(instances, t, NewCall.arg)
                /\ Lookup(instances', t, NewCall.arg)
                   <=> \/ Lookup(instances, t, NewCall.arg)
                       \/ t \in Range(NewCall.ret)]_vars

\* A weekly rule with BYDAY was passed over on a day of its window and
\* gave an instance on a listed weekday of the second week.
C11_Witness ==
    /\ rules[1].rrule.freq = "WEEKLY"
    /\ rules[1].rrule.byday # {}
    /\ \E i, j \in DOMAIN calls :
          /\ calls[i].ok /\ calls[j].ok
          /\ InWindow(rules[1], calls[i].arg)
          /\ 1 \notin Range(calls[i].ret)
          /\ calls[j].arg > 7
          /\ 1 \in Range(calls[j].ret)

\* C12: a FREQ=DAILY rule includes date D if and only if start_date <= D
\* and end_date is unset or D <= end_date, and a generate call creates the
\* rule's instance exactly on such a date (when the task has none yet).
C12_DailyWindow ==
    [][(Responded /\ NewCall.op = "generate")
       => \A t \in Tasks :
             (rules[t].rrule = Daily /\ rules[t].is_active /\ tasks[t].is_active)
             => /\ \A D \in RuleDates :
                      _rrule_includes_date(rules[t].rrule, rules[t].start_date,
                                           rules[t].end_date, D)
                      <=> InWindow(rules[t], D)
                /\ NewCall.ok
                   => (t \in Range(NewCall.ret)
                       <=> /\ InWindow(rules[t], NewCall.arg)
                           /\ ~Lookup(instances, t, NewCall.arg))]_vars

\* A daily rule gave its instance on its end date, none the day after and
\* none the day before its start date.
C12_Witness ==
    /\ rules[1].rrule = Daily
    /\ rules[1].end_date # NULL
    /\ \E i, j, k \in DOMAIN calls :
          /\ calls[i].arg = rules[1].end_date[1]
          /\ 1 \in Range(calls[i].ret)
          /\ calls[j].arg = rules[1].end_date[1] + 1
          /\ 1 \notin Range(calls[j].ret)
          /\ calls[k].arg = rules[1].start_date - 1
          /\ 1 \notin Range(calls[k].ret)

\* C16: a rule whose text does not parse matches no date and raises
\* nothing: every generate call completes and the well-formed rules that
\* match the date have their instances afterwards.
C16_MalformedFailsClosed ==
    [][(Responded /\ NewCall.op = "generate")
       => /\ NewCall.ok
          /\ \A t \in Tasks :
                (/\ RuleSelected(t, NewCall.arg)
                 /\ Parses(rules[t].rrule)
                 /\ _rrule_includes_date(rules[t].rrule, rules[t].start_date,
                                         rules[t].end_date, NewCall.arg))
                => Lookup(instances', t, NewCall.arg)]_vars

\* C15: a rollover call right after a rollover call for the same dates
\* leaves the instance table as it is and returns the empty list.
C15_RolloverIdempotent ==
    [][(/\ Responded
        /\ Len(calls) >= 1
        /\ LastCall.op = "rollover"
        /\ NewCall.op = "rollover"
        /\ NewCall.arg = LastCall.arg)
       => (instances' = instances /\ NewCall.ret = <<>>)]_vars

\* Two rollover calls in a row, the first of which created rows.
C15_Witness ==
    \E i \in DOMAIN calls :
        /\ i + 1 \in DOMAIN calls
        /\ calls[i].op = "rollover"
        /\ calls[i + 1].op = "rollover"
        /\ calls[i].arg = calls[i + 1].arg
        /\ calls[i].ret # <<>>

\* C20: rollover returns exactly the rows it created: every returned
\* instance is dated to_date with source rolled_over, and every row the
\* call created is returned.
C20_RolloverReturnsCreated ==
    [][(Responded /\ NewCall.op = "rollover")
       => /\ \A i \in DOMAIN NewCall.ret :
                /\ instances'[NewCall.ret[i]].instance_date = NewCall.arg
                /\ instances'[NewCall.ret[i]].source = "rolled_over"
          /\ \A pk \in (DOMAIN instances') \ (DOMAIN instances) :
                pk \in Range(NewCall.ret)]_vars

\* C17: Complete on an instance that is already complete changes neither
\* its status, completion_order or completed_at, and appends no execution.
C17_CompleteAgainNoOp ==
    [][(/\ Responded
        /\ NewCall.op = "complete"
        /\ instances[NewCall.arg].status = "complete")
       => /\ instances'[NewCall.arg].status = instances[NewCall.arg].status
          /\ instances'[NewCall.arg].completion_order =
                instances[NewCall.arg].completion_order
          /\ instances'[NewCall.arg].completed_at =
                instances[NewCall.arg].completed_at
          /\ executions' = executions]_vars

\* A request that completed an instance: Complete, or Toggle on an
\* incomplete one.
IsCompleteEvent(c) ==
    c.op \in {"complete", "toggle"} /\ c.ok /\ c.ret # NULL

\* C19: on one date, every Complete event assigns a completion_order
\* strictly greater than every earlier Complete event of the date did.
C19_OrdersAdvance ==
    \A i, j \in DOMAIN calls :
        (/\ i < j
         /\ IsCompleteEvent(calls[i])
         /\ IsCompleteEvent(calls[j])
         /\ instances[calls[i].arg].instance_date =
               instances[calls[j].arg].instance_date)
        => calls[j].ret[1] > calls[i].ret[1]

\* C13: the today page lists every instance of the date once; every
\* incomplete instance comes before every complete or skipped one; the
\* incomplete ones are in (assigned_order, task priority) order; every
\* complete one comes before every skipped one and the complete ones are
\* in completion_order order.
C13_WorklistOrder ==
    [][(Responded /\ NewCall.op = "today" /\ NewCall.ok)
       => LET w == Worklist(NewCall.ret)
              st(i) == instances'[w[i]].status
          IN  /\ Range(w) = PksOn(instances', NewCall.arg)
              /\ Len(w) = Cardinality(Range(w))
              /\ \A i, j \in DOMAIN w :
                    i < j
                    => /\ ~(st(i) # "incomplete" /\ st(j) = "incomplete")
                       /\ ~(st(i) = "skipped" /\ st(j) = "complete")
                       /\ (st(i) = "incomplete" /\ st(j) = "incomplete")
                          => ~LexLess(IncompleteKey(instances', w[j]),
                                      IncompleteKey(instances', w[i]))
                       /\ (st(i) = "complete" /\ st(j) = "complete")
                          => instances'[w[i]].completion_order[1]
                                < instances'[w[j]].completion_order[1]]_vars

\* The page listed a complete instance, completed by the request before,
\* ahead of a skipped one that was created earlier.
C13_Witness ==
    /\ Len(calls) = 2
    /\ calls[1].op = "toggle"
    /\ LastCall.op = "today"
    /\ LastCall.ok
    /\ LastCall.ret.completed = <<2, 1>>
    /\ instances[1].status = "skipped"
    /\ instances[2].status = "complete"

\* C18: Toggle changes the instances and the execution log as Uncomplete
\* does when the instance is complete, and as Complete does for any other
\* status.
C18_ToggleIsEitherEndpoint ==
    [][(Responded /\ NewCall.op = "toggle" /\ NewCall.ok)
       => LET pk == NewCall.arg
              was_complete == instances[pk].status = "complete"
              fields == IF was_complete
                        THEN UncompleteFields
                        ELSE CompleteFields(
                                MaxCompletionOrder(instances,
                                                   instances[pk].instance_date))
          IN  /\ instances' = Save(instances, pk, fields)
              /\ executions' =
                    CreateExecution(executions, pk,
                                    IF was_complete THEN "uncompleted"
                                                    ELSE "completed")]_vars

\* C14: completion_order is non-null exactly for the instances whose
\* status is complete, in every state the interleaved requests of the
\* engine reach from a store where this holds.
C14_OrderIffComplete ==
    \A pk \in DOMAIN instances :
        instances[pk].completion_order # NULL <=> instances[pk].status = "complete"

\* A reorder of an instance is between its two saves, holding the row as
\* it fetched it, while another request has completed the instance.
C14_Witness ==
    \E p \in Procs :
        /\ procs[p].op = "reorder"
        /\ procs[p].pc = "save_other"
        /\ procs[p].inst.status = "incomplete"
        /\ instances[procs[p].arg].status = "complete"
        /\ instances[procs[p].arg].completion_order # NULL

\* C21: when only generate, rollover and rule switches ran, no rolled-over
\* instance of a date has a smaller assigned_order than a generated
\* instance of the date.
C21_RolledOverAfterGenerated ==
    (\A i \in DOMAIN calls : calls[i].op \in {"generate", "rollover", "toggle_pause"})
    => \A a, b \in DOMAIN instances :
          (/\ instances[a].instance_date = instances[b].instance_date
           /\ instances[a].source = "rolled_over"
           /\ instances[b].source = "generated")
          => instances[a].assigned_order >= instances[b].assigned_order

\* C23: a FREQ=WEEKLY rule without BYDAY includes every date of its
\* window, and a generate call on such a date creates the rule's instance
\* when the task has none.
C23_WeeklyWithoutByDay ==
    [][(Responded /\ NewCall.op = "generate" /\ NewCall.ok)
       => \A t \in Tasks :
             (rules[t].rrule = Weekly({}) /\ InWindow(rules[t], NewCall.arg))
             => /\ _rrule_includes_date(rules[t].rrule, rules[t].start_date,
                                        rules[t].end_date, NewCall.arg)
                /\ Lookup(instances', t, NewCall.arg)]_vars

\* C27: two Complete or Toggle requests on two different incomplete
\* instances of one date, however interleaved, both succeed and leave the
\* two instances complete with different completion_order values.
C27_RacingCompletesBothSucceed ==
    (/\ InFlight = {}
     /\ Len(calls) = 2
     /\ \A i \in 1..2 : calls[i].op \in {"complete", "toggle"}
     /\ calls[1].arg # calls[2].arg
     /\ instances[calls[1].arg].instance_date = instances[calls[2].arg].instance_date)
    => /\ calls[1].ok /\ calls[2].ok
       /\ instances[calls[1].arg].status = "complete"
       /\ instances[calls[2].arg].status = "complete"
       /\ instances[calls[1].arg].completion_order #
             instances[calls[2].arg].completion_order

\* C28: when no request is in flight, an instance with execution records
\* is complete if and only if its last record is `completed`.
C28_StatusAgreesWithLog ==
    InFlight = {}
    => \A pk \in DOMAIN instances :
          LET log == ExecLog(executions, pk)
          IN  log # <<>>
              => (instances[pk].status = "complete" <=> log[Len(log)] = "completed")

\* C30: when only generate, rollover and add ran, one request at a time,
\* no two instances of a date have the same assigned_order.
C30_DistinctAssignedOrder ==
    (\A i \in DOMAIN calls : calls[i].op \in {"generate", "rollover", "add"})
    => \A a, b \in DOMAIN instances :
          (a # b /\ instances[a].instance_date = instances[b].instance_date)
          => instances[a].assigned_order # instances[b].assigned_order

\* C22: a generate call for date D creates an instance for a task, and
\* returns the task, only if at the time of the call the task is active,
\* its rule is active, D is in the rule's window and the rule's recurrence
\* occurs on D; a call that raises creates nothing.
C22_GenerateOnlyEligible ==
    [][(Responded /\ NewCall.op = "generate")
       => \A t \in Tasks :
             (\/ t \in Range(NewCall.ret)
              \/ Lookup(instances', t, NewCall.arg) /\ ~Lookup(instances, t, NewCall.arg))
             => /\ NewCall.ok
                /\ tasks[t].is_active
                /\ rules[t] # NULL
                /\ rules[t].is_active
                /\ InWindow(rules[t], NewCall.arg)
                /\ Occurs(rules[t].rrule, rules[t].start_date, NewCall.arg)]_vars

\* A generate call made after a switch was used created one task's
\* instance and none for a task that is switched off (the task or its
\* rule) although its rule occurs on the date, inside its window.
C22_Witness ==
    /\ calls # <<>>
    /\ LastCall.op = "generate"
    /\ LastCall.ok
    /\ LastCall.ret # <<>>
    /\ \E i \in DOMAIN calls : calls[i].op \in {"toggle_pause", "deactivate"}
    /\ \E u \in Tasks :
          /\ ~(tasks[u].is_active /\ rules[u].is_active)
          /\ InWindow(rules[u], LastCall.arg)
          /\ Occurs(rules[u].rrule, rules[u].start_date, LastCall.arg)
          /\ ~Lookup(instances, u, LastCall.arg)

\* The neighbour a reorder request swapped with: the row above (up) or
\* below (down) the instance in the siblings list the request evaluated.
Moved(call) ==
    /\ call.op = "reorder"
    /\ call.ret.siblings # <<>>
    /\ SwapIdx(IndexOf(call.ret.siblings, call.arg), Len(call.ret.siblings),
               call.ret.direction) # 0

Neighbour(call) ==
    call.ret.siblings[SwapIdx(IndexOf(call.ret.siblings, call.arg),
                              Len(call.ret.siblings), call.ret.direction)]

\* C24: reorder up on an incomplete instance that is not first leaves it
\* sorting before its former upper neighbour, and reorder down on one that
\* is not last leaves it sorting after its former lower neighbour, in
\* every evaluation of the date's incomplete list; the two rows hold each
\* other's assigned_order, the moved one lowered (up) or raised (down) by
\* one when the two values were equal.
C24_ReorderPassesNeighbour ==
    [][(Responded /\ Moved(NewCall))
       => LET pk == NewCall.arg
              other == Neighbour(NewCall)
              up == NewCall.ret.direction = "up"
              mine == instances[pk].assigned_order
              theirs == instances[other].assigned_order
          IN  /\ instances'[other].assigned_order = mine
              /\ instances'[pk].assigned_order =
                    (IF mine # theirs THEN theirs
                     ELSE IF up THEN theirs - 1 ELSE theirs + 1)
              /\ \A s \in Siblings(instances', pk) :
                    IF up THEN IndexOf(s, pk) < IndexOf(s, other)
                          ELSE IndexOf(s, pk) > IndexOf(s, other)]_vars

\* Two rows with the same assigned_order were reordered: the last request
\* moved its instance up past the neighbour by lowering its order by one.
C24_Witness ==
    /\ calls # <<>>
    /\ Moved(LastCall)
    /\ LastCall.ret.direction = "up"
    /\ instances[LastCall.arg].assigned_order + 1 =
          instances[Neighbour(LastCall)].assigned_order
    /\ \A s \in Siblings(instances, LastCall.arg) :
          IndexOf(s, LastCall.arg) < IndexOf(s, Neighbour(LastCall))

\* C25: a reorder request changes no stored row when its instance is not
\* incomplete, when the instance is first in the list and the direction is
\* up, or last and the direction is down, or when the direction is neither.
C25_ReorderNoOp ==
    [][(/\ Responded
        /\ NewCall.op = "reorder"
        /\ LET s == NewCall.ret.siblings
               d == NewCall.ret.direction
           IN  \/ instances[NewCall.arg].status # "incomplete"
               \/ d \notin {"up", "down"}
               \/ d = "up" /\ s # <<>> /\ s[1] = NewCall.arg
               \/ d = "down" /\ s # <<>> /\ s[Len(s)] = NewCall.arg)
       => /\ instances' = instances
          /\ executions' = executions
          /\ tasks' = tasks
          /\ rules' = rules]_vars

\* After a request that moved a row, the instance now first in a list of
\* two or more rows was sent up again; a request for a complete instance
\* and one with no direction were made as well.
C25_Witness ==
    /\ Len(calls) = 2
    /\ Moved(calls[1])
    /\ LastCall.ret.direction = "up"
    /\ Len(LastCall.ret.siblings) >= 2
    /\ LastCall.ret.siblings[1] = LastCall.arg

\* C29: a reorder request that moves its instance moves it by exactly one
\* position in the date's sorted incomplete list and leaves the other
\* incomplete instances in the order they had, ties included.  Rows with
\* equal keys come in the database's order, so the list after the request
\* is required to have one evaluation, not every evaluation, that is the
\* list the request saw with the instance moved one place.
C29_ReorderMovesOnePlace ==
    [][(Responded /\ Moved(NewCall))
       => LET pk == NewCall.arg
              before == NewCall.ret.siblings
              step == IF NewCall.ret.direction = "up" THEN -1 ELSE 1
          IN  \E after \in Siblings(instances', pk) :
                 /\ IndexOf(after, pk) = IndexOf(before, pk) + step
                 /\ \A a, b \in Range(before) \ {pk} :
                       IndexOf(before, a) < IndexOf(before, b)
                       => IndexOf(after, a) < IndexOf(after, b)]_vars

\* The dates whose assigned_order values request q's next query reads:
\* the date of the siblings list of a reorder, the from_date of the stale
\* list and the to_date of the Max of a rollover.
ReadsOrdersOf(q) ==
    CASE procs[q].pc = "siblings" -> {instances[procs[q].arg].instance_date}
      [] procs[q].pc = "list"     -> {procs[q].date - 1}
      [] procs[q].pc = "max"      -> {procs[q].date}
      [] OTHER                    -> {}

\* C26: the two saves of a reorder request are one atomic update: while a
\* request has written its instance's assigned_order and not yet the
\* neighbour's, no other request runs a query that reads the
\* assigned_order values of that date.
C26_ReorderSwapAtomic ==
    [][\A p, q \in Procs :
          (/\ p # q
           /\ procs[p].pc = "save_other"
           /\ instances[procs[p].arg].instance_date \in ReadsOrdersOf(q))
          => procs'[q] = procs[q]]_vars

====
